---- MODULE Spec2Model ----
(***************************************************************************)
(* A model of package rsyncparse (src/rsyncparse.go): Parse scans the      *)
(* lines of an io.Reader with a bufio.Scanner, extracts the rsync transfer *)
(* totals with two regular expressions and returns them in a Stats struct; *)
(* Stats.Speedup derives the speed-up from a returned struct.              *)
(*                                                                         *)
(* A line is a sequence of one-character strings `text' followed by `pad'  *)
(* copies of the Filler character, so that lines of 64 KiB can be stated   *)
(* without enumerating their bytes.  A float64 is the decimal number       *)
(* mant * 10^(-exp), normalised; an int64 is modelled at the reduced width *)
(* IntWidth with the same wrap-around and range rules.                     *)
(***************************************************************************)
EXTENDS Integers, Sequences, FiniteSets, TLC

VARIABLES seen, p, pc, ret, speedup

vars == <<seen, p, pc, ret, speedup>>

\* Lines the reader hands to one Parse call before the model stops it.
MaxLines == 3

\* Width in bits of the model's int64 (and uint64 inside ParseInt).
IntWidth == 24

\* bufio.MaxScanTokenSize, the default token limit of bufio.NewScanner.
MaxScanTokenSize == 65536

RECURSIVE Pow2(_)
Pow2(n) == IF n = 0 THEN 1 ELSE 2 * Pow2(n - 1)

MaxInt64 == Pow2(IntWidth - 1) - 1

MinInt64 == 0 - Pow2(IntWidth - 1)

MaxUint64 == Pow2(IntWidth) - 1

Nil == "nil"

----------------------------------------------------------------------------
(* Characters and lines *)

DigitChars == <<"0", "1", "2", "3", "4", "5", "6", "7", "8", "9">>

Digits == {DigitChars[i] : i \in 1..10}

DigitVal(c) == (CHOOSE i \in 1..10 : DigitChars[i] = c) - 1

\* The character class [0-9,] of both expressions.
IntClass == Digits \cup {","}

\* The character class [0-9,.] of both expressions.
FloatClass == Digits \cup {",", "."}

\* The byte that fills the tail of a padded line; it occurs in no class
\* and in no literal of the two expressions.
Filler == "x"

LineLen(l) == Len(l.text) + l.pad

CharAt(l, i) == IF i <= Len(l.text) THEN l.text[i] ELSE Filler

Sub(l, a, b) == [k \in 1..(b - a + 1) |-> CharAt(l, a + k - 1)]

\* strings.HasPrefix(line, prefix)
HasPrefix(l, prefix) ==
    /\ LineLen(l) >= Len(prefix)
    /\ \A k \in 1..Len(prefix) : CharAt(l, k) = prefix[k]

\* strings.ReplaceAll(s, ",", "")
RECURSIVE ReplaceAll(_)
ReplaceAll(s) ==
    IF s = <<>> THEN <<>>
    ELSE IF Head(s) = "," THEN ReplaceAll(Tail(s))
    ELSE <<Head(s)>> \o ReplaceAll(Tail(s))

----------------------------------------------------------------------------
(* The two regular expressions *)

Lit(s) == [kind |-> "lit", lit |-> s, class |-> {}]

Class(c) == [kind |-> "class", lit |-> <<>>, class |-> c]

SentPrefix == <<"s", "e", "n", "t", " ">>

SizePrefix == <<"t", "o", "t", "a", "l", " ", "s", "i", "z", "e", " ", "i", "s", " ">>

BytesReceived == <<" ", "b", "y", "t", "e", "s", " ", " ", "r", "e", "c", "e", "i", "v", "e", "d", " ">>

BytesSep == <<" ", "b", "y", "t", "e", "s", " ", " ">>

BytesPerSecLit == <<" ", "b", "y", "t", "e", "s", "/", "s", "e", "c">>

SpeedupIs == <<" ", " ", "s", "p", "e", "e", "d", "u", "p", " ", "i", "s", " ">>

\* ^sent ([0-9,]+) bytes  received ([0-9,]+) bytes  ([0-9,.]+) bytes/sec$
statsTransferRe ==
    << Lit(SentPrefix), Class(IntClass), Lit(BytesReceived), Class(IntClass),
       Lit(BytesSep), Class(FloatClass), Lit(BytesPerSecLit) >>

\* ^total size is ([0-9,]+)  speedup is ([0-9,.]+)$
statsSizeRe ==
    << Lit(SizePrefix), Class(IntClass), Lit(SpeedupIs), Class(FloatClass) >>

HasLit(l, i, lit) ==
    /\ i + Len(lit) - 1 <= LineLen(l)
    /\ \A k \in 1..Len(lit) : CharAt(l, i + k - 1) = lit[k]

\* Length of the longest run of characters of class c that starts at i.
RECURSIVE RunLen(_, _, _)
RunLen(l, i, c) ==
    IF i <= LineLen(l) /\ CharAt(l, i) \in c THEN 1 + RunLen(l, i + 1, c) ELSE 0

\* Anchored match of elements k.. of re against l from position i.  Every
\* class of the two expressions is followed by a literal whose first
\* character is outside the class, or by the end of the line, so the greedy
\* run is the only way the class can match.
RECURSIVE MatchFrom(_, _, _, _, _)
MatchFrom(re, k, l, i, caps) ==
    IF k > Len(re)
    THEN IF i = LineLen(l) + 1 THEN <<Sub(l, 1, LineLen(l))>> \o caps ELSE <<>>
    ELSE IF re[k].kind = "lit"
    THEN IF HasLit(l, i, re[k].lit)
         THEN MatchFrom(re, k + 1, l, i + Len(re[k].lit), caps)
         ELSE <<>>
    ELSE LET r == RunLen(l, i, re[k].class)
         IN  IF r = 0 THEN <<>>
             ELSE MatchFrom(re, k + 1, l, i + r, Append(caps, Sub(l, i, i + r - 1)))

\* (*Regexp).FindStringSubmatch: <<>> is the nil slice, otherwise element 1
\* is the whole match (Go's matches[0]) and element n+1 is Go's matches[n].
FindStringSubmatch(re, l) == MatchFrom(re, 1, l, 1, <<>>)

----------------------------------------------------------------------------
(* strconv *)

\* strconv.ParseUint's digit loop in the given base over the characters s,
\* from the accumulated value n.
RECURSIVE ParseDigits(_, _, _)
ParseDigits(s, base, n) ==
    IF s = <<>> THEN [val |-> n, err |-> Nil]
    ELSE IF Head(s) \notin Digits \/ DigitVal(Head(s)) >= base
    THEN [val |-> 0, err |-> "ErrSyntax"]
    ELSE IF n * base + DigitVal(Head(s)) > MaxUint64
    THEN [val |-> MaxUint64, err |-> "ErrRange"]
    ELSE ParseDigits(Tail(s), base, n * base + DigitVal(Head(s)))

\* The base ParseInt(s, 0, 64) reads s in: a leading "0" selects octal (the
\* "0b", "0o" and "0x" prefixes need a letter, which no capture contains).
BaseOf(s) == IF Head(s) = "0" THEN 8 ELSE 10

\* strconv.ParseInt(s, 0, 64) on a string without sign.
ParseInt(s) ==
    IF s = <<>> THEN [val |-> 0, err |-> "ErrSyntax"]
    ELSE LET un == ParseDigits(IF BaseOf(s) = 8 THEN Tail(s) ELSE s, BaseOf(s), 0)
         IN  IF un.err = "ErrSyntax" THEN [val |-> 0, err |-> "ErrSyntax"]
             ELSE IF un.err = "ErrRange" \/ un.val > MaxInt64
             THEN [val |-> MaxInt64, err |-> "ErrRange"]
             ELSE [val |-> un.val, err |-> Nil]

RECURSIVE DecimalOf(_, _)
DecimalOf(s, n) == IF s = <<>> THEN n ELSE DecimalOf(Tail(s), n * 10 + DigitVal(Head(s)))

\* A float64 value mant * 10^(-exp) in its normal form.
RECURSIVE Float(_, _)
Float(mant, exp) ==
    IF exp > 0 /\ mant % 10 = 0 THEN Float(mant \div 10, exp - 1)
    ELSE [mant |-> mant, exp |-> exp]

CountOf(s, c) == Cardinality({i \in 1..Len(s) : s[i] = c})

\* strconv.ParseFloat(s, 64) on a string of digits and points: digits with at
\* most one point and at least one digit.
ParseFloat(s) ==
    IF CountOf(s, ".") > 1 \/ CountOf(s, ".") = Len(s)
    THEN [val |-> Float(0, 0), err |-> "ErrSyntax"]
    ELSE LET dot  == IF CountOf(s, ".") = 0 THEN Len(s) + 1
                     ELSE CHOOSE i \in 1..Len(s) : s[i] = "."
             digs == SubSeq(s, 1, dot - 1) \o SubSeq(s, dot + 1, Len(s))
         IN  [val |-> Float(DecimalOf(digs, 0), IF dot > Len(s) THEN 0 ELSE Len(s) - dot),
              err |-> Nil]

----------------------------------------------------------------------------
(* Stats *)

\* p := &Stats{}
ZeroStats ==
    [Found |-> FALSE, TotalWritten |-> 0, TotalRead |-> 0,
     BytesPerSec |-> Float(0, 0), TotalSize |-> 0]

\* int64 addition, wrapping around.
Int64Add(a, b) == ((a + b - MinInt64) % Pow2(IntWidth)) + MinInt64

Abs(n) == IF n < 0 THEN 0 - n ELSE n

\* int64 division by a non-zero divisor: the quotient is truncated toward
\* zero, and MinInt64 / -1 wraps around to MinInt64.
Int64Div(n, d) ==
    IF n = MinInt64 /\ d = 0 - 1 THEN MinInt64
    ELSE IF (n < 0) = (d < 0) THEN Abs(n) \div Abs(d)
    ELSE 0 - (Abs(n) \div Abs(d))

\* float64(i) of an int64 i.
Float64(i) == Float(i, 0)

\* Speedup as the ratio of the two numbers in floating point, to two places.
SpeedupRatio(s) ==
    IF Int64Add(s.TotalWritten, s.TotalRead) = 0
    THEN [kind |-> "panic", val |-> Float(0, 0)]
    ELSE [kind |-> "value",
          val |-> Float((s.TotalSize * 100) \div Int64Add(s.TotalWritten, s.TotalRead), 2)]

\* (*Stats).Speedup: a value, or the run-time panic of an integer division
\* by zero.
Speedup(s) ==
    IF Int64Add(s.TotalWritten, s.TotalRead) = 0
    THEN [kind |-> "panic", val |-> Float(0, 0)]
    ELSE [kind |-> "value",
          val |-> Float64(Int64Div(s.TotalSize, Int64Add(s.TotalWritten, s.TotalRead)))]

\* The nil *Stats, and a pointer to the struct s.
NilStats == <<>>

Ptr(s) == <<s>>

----------------------------------------------------------------------------
(* Parse *)

\* What the loop body leaves behind for one line: the struct, where Parse
\* goes next ("scan": the next scan.Scan(); "error": return nil, err;
\* "panic": a run-time panic unwinds Parse) and the error it returns.
Outcome(stats, next, err) == [p |-> stats, pc |-> next, err |-> err]

\* SentLine with the error of the second conversion dropped.
SentLineDropsErr(s, l) ==
    LET matches == FindStringSubmatch(statsTransferRe, l)
    IN  IF Len(matches) = 0 THEN Outcome(s, "error", "ErrSentFormat")
        ELSE
        LET w  == ParseInt(ReplaceAll(matches[2]))
            r  == ParseInt(ReplaceAll(matches[3]))
            b  == ParseFloat(ReplaceAll(matches[4]))
            s3 == [s EXCEPT !.Found = TRUE, !.TotalWritten = w.val,
                            !.TotalRead = r.val, !.BytesPerSec = b.val]
        IN  IF w.err # Nil THEN Outcome(s3, "error", w.err)
            ELSE IF b.err # Nil THEN Outcome(s3, "error", b.err)
            ELSE Outcome(s3, "scan", Nil)

\* SentLine filling a fresh struct instead of the one in progress.
SentLineFresh(s, l) ==
    LET matches == FindStringSubmatch(statsTransferRe, l)
    IN  IF Len(matches) = 0 THEN Outcome(s, "error", "ErrSentFormat")
        ELSE
        LET w  == ParseInt(ReplaceAll(matches[2]))
            r  == ParseInt(ReplaceAll(matches[3]))
            b  == ParseFloat(ReplaceAll(matches[4]))
            s3 == [ZeroStats EXCEPT !.Found = TRUE, !.TotalWritten = w.val,
                                    !.TotalRead = r.val, !.BytesPerSec = b.val]
        IN  IF w.err # Nil THEN Outcome(s3, "error", w.err)
            ELSE IF r.err # Nil THEN Outcome(s3, "error", r.err)
            ELSE IF b.err # Nil THEN Outcome(s3, "error", b.err)
            ELSE Outcome(s3, "scan", Nil)

\* The branch of the loop body for a line with the prefix "sent ".
SentLine(s, l) ==
    LET matches == FindStringSubmatch(statsTransferRe, l)
    IN  IF Len(matches) = 0 THEN Outcome(s, "error", "ErrSentFormat")
        ELSE
        LET w  == ParseInt(ReplaceAll(matches[2]))
            r  == ParseInt(ReplaceAll(matches[3]))
            b  == ParseFloat(ReplaceAll(matches[4]))
            s1 == [s EXCEPT !.Found = TRUE, !.TotalWritten = w.val]
            s2 == [s1 EXCEPT !.TotalRead = r.val]
            s3 == [s2 EXCEPT !.BytesPerSec = b.val]
        IN  IF w.err # Nil THEN Outcome(s1, "error", w.err)
            ELSE IF r.err # Nil THEN Outcome(s2, "error", r.err)
            ELSE IF b.err # Nil THEN Outcome(s3, "error", b.err)
            ELSE Outcome(s3, "scan", Nil)

\* SizeLine without the assignment to Found.
SizeLineNoFound(s, l) ==
    LET matches == FindStringSubmatch(statsSizeRe, l)
    IN  IF Len(matches) = 0 THEN Outcome(s, "panic", Nil)
        ELSE
        LET t  == ParseInt(ReplaceAll(matches[2]))
            s2 == [s EXCEPT !.TotalSize = t.val]
        IN  IF t.err # Nil THEN Outcome(s2, "error", t.err)
            ELSE Outcome(s2, "scan", Nil)

\* SizeLine that also keeps the line's speedup, in BytesPerSec.
SizeLineKeepsSpeedup(s, l) ==
    LET matches == FindStringSubmatch(statsSizeRe, l)
        s1      == [s EXCEPT !.Found = TRUE]
    IN  IF Len(matches) = 0 THEN Outcome(s1, "panic", Nil)
        ELSE
        LET t  == ParseInt(ReplaceAll(matches[2]))
            s2 == [s1 EXCEPT !.TotalSize = t.val,
                             !.BytesPerSec = ParseFloat(ReplaceAll(matches[3])).val]
        IN  IF t.err # Nil THEN Outcome(s2, "error", t.err)
            ELSE Outcome(s2, "scan", Nil)

\* The branch of the loop body for a line with the prefix "total size is ":
\* the result of FindStringSubmatch is not tested, Found is set, and
\* matches[1] of the nil slice is a run-time panic (index out of range).
SizeLine(s, l) ==
    LET matches == FindStringSubmatch(statsSizeRe, l)
        s1      == [s EXCEPT !.Found = TRUE]
    IN  IF Len(matches) = 0 THEN Outcome(s1, "panic", Nil)
        ELSE
        LET t  == ParseInt(ReplaceAll(matches[2]))
            s2 == [s1 EXCEPT !.TotalSize = t.val]
        IN  IF t.err # Nil THEN Outcome(s2, "error", t.err)
            ELSE Outcome(s2, "scan", Nil)

\* OtherLine marking the struct as found.
OtherLineFound(s, l) == Outcome([s EXCEPT !.Found = TRUE], "scan", Nil)

\* The loop body for a line with neither prefix: no branch is taken.
OtherLine(s, l) == Outcome(s, "scan", Nil)

\* A scanner without a token limit.
TooLongNever(l) == FALSE

\* scan.Scan() fails with bufio.ErrTooLong when the buffer has grown to
\* MaxScanTokenSize bytes and holds no complete line.
TooLong(l) == LineLen(l) >= MaxScanTokenSize

----------------------------------------------------------------------------
(* The lines the reader can deliver *)

RECURSIVE DecChars(_)
DecChars(n) ==
    IF n < 10 THEN <<DigitChars[n + 1]>>
    ELSE DecChars(n \div 10) \o <<DigitChars[(n % 10) + 1]>>

TransferText(n1, n2, n3) ==
    [text |-> SentPrefix \o n1 \o BytesReceived \o n2 \o BytesSep \o n3 \o BytesPerSecLit,
     pad |-> 0]

SizeText(n4, n5) == [text |-> SizePrefix \o n4 \o SpeedupIs \o n5, pad |-> 0]

N1590 == <<"1", ",", "5", "9", "0">>

N18 == <<"1", "8">>

N3216 == <<"3", ",", "2", "1", "6", ".", "0", "0">>

N1188046 == <<"1", ",", "1", "8", "8", ",", "0", "4", "6">>

N738 == <<"7", "3", "8", ".", "8", "3">>

NZero == <<"0">>

NZeroRate == <<"0", ".", "0", "0">>

NLeadingZero == <<"0", "1", "0">>

NZeroEight == <<"0", "8">>

NComma == <<",">>

NTwoPoints == <<"1", ".", "2", ".", "3">>

NSeven == <<"7">>

NHalf == <<".", "5">>

NHuge == <<"9", "9", "9", "9", "9", "9", "9", "9">>

\* sent 1,590 bytes  received 18 bytes  3,216.00 bytes/sec
LTransfer == TransferText(N1590, N18, N3216)

\* total size is 1,188,046  speedup is 738.83
LSize == SizeText(N1188046, N738)

OtherLines ==
    { [text |-> <<>>, pad |-> 0],
      [text |-> <<"s", "e", "n", "t">>, pad |-> 0],
      [text |-> <<"s", "e", "n", "t">>, pad |-> MaxScanTokenSize - 5],
      [text |-> <<>>, pad |-> MaxScanTokenSize],
      [text |-> <<"t", "o">>, pad |-> MaxScanTokenSize + 1] }

SentLines ==
    { LTransfer,
      TransferText(NZero, NZero, NZeroRate),
      TransferText(NLeadingZero, N18, NHalf),
      TransferText(N18, NComma, NSeven),
      TransferText(NHuge, N18, NSeven),
      TransferText(DecChars(MaxInt64), DecChars(MaxInt64), NSeven),
      TransferText(N18, NSeven, NTwoPoints),
      [text |-> SentPrefix \o N18 \o BytesReceived \o N18 \o <<" ", "b", "y", "t", "e", "s">>,
       pad |-> 0],
      [text |-> SentPrefix \o N18, pad |-> MaxScanTokenSize] }

SizeLines ==
    { LSize,
      SizeText(NZero, NZero),
      SizeText(NSeven, NTwoPoints),
      SizeText(NZeroEight, NSeven),
      SizeText(NComma, NSeven),
      SizeText(DecChars(MaxInt64 + 1), NSeven),
      [text |-> SizePrefix \o NSeven, pad |-> 0],
      [text |-> SizePrefix \o NSeven \o SpeedupIs \o NSeven, pad |-> 1] }

Lines == OtherLines \cup SentLines \cup SizeLines

----------------------------------------------------------------------------
(* The state machine: one Parse call, then Speedup on what it returned *)

Init ==
    /\ seen = <<>>
    /\ p = ZeroStats
    /\ pc = "scan"
    /\ ret = [stats |-> NilStats, err |-> Nil]
    /\ speedup = [kind |-> "none", val |-> Float(0, 0)]

\* One pass of the loop from the outcome o of its body.
Step(l, o) ==
    /\ seen' = Append(seen, l)
    /\ p' = o.p
    /\ pc' = o.pc
    /\ ret' = [stats |-> NilStats, err |-> o.err]
    /\ UNCHANGED speedup

\* scan.Scan() returns false on a line of MaxScanTokenSize bytes or more;
\* scan.Err() is bufio.ErrTooLong and Parse returns nil, err.
ScanTooLong ==
    \E l \in Lines :
        /\ pc = "scan"
        /\ Len(seen) < MaxLines
        /\ TooLong(l)
        /\ Step(l, Outcome(p, "error", "ErrTooLong"))

ScanSent ==
    \E l \in Lines :
        /\ pc = "scan"
        /\ Len(seen) < MaxLines
        /\ ~TooLong(l)
        /\ HasPrefix(l, SentPrefix)
        /\ Step(l, SentLine(p, l))

ScanSize ==
    \E l \in Lines :
        /\ pc = "scan"
        /\ Len(seen) < MaxLines
        /\ ~TooLong(l)
        /\ ~HasPrefix(l, SentPrefix)
        /\ HasPrefix(l, SizePrefix)
        /\ Step(l, SizeLine(p, l))

ScanOther ==
    \E l \in Lines :
        /\ pc = "scan"
        /\ Len(seen) < MaxLines
        /\ ~TooLong(l)
        /\ ~HasPrefix(l, SentPrefix)
        /\ ~HasPrefix(l, SizePrefix)
        /\ Step(l, OtherLine(p, l))

\* The reader reports io.EOF: scan.Scan() returns false, scan.Err() is nil
\* and Parse returns p, nil.
ScanEOF ==
    /\ pc = "scan"
    /\ pc' = "done"
    /\ ret' = [stats |-> Ptr(p), err |-> Nil]
    /\ UNCHANGED <<seen, p, speedup>>

\* The reader fails: scan.Scan() returns false, scan.Err() is the reader's
\* error and Parse returns nil, err.
ScanReadErr ==
    /\ pc = "scan"
    /\ pc' = "error"
    /\ ret' = [stats |-> NilStats, err |-> "ErrRead"]
    /\ UNCHANGED <<seen, p, speedup>>

\* The caller evaluates Speedup() on the struct Parse returned.
CallSpeedup ==
    /\ pc = "done"
    /\ speedup.kind = "none"
    /\ speedup' = Speedup(ret.stats[1])
    /\ UNCHANGED <<seen, p, pc, ret>>

Next ==
    \/ ScanTooLong
    \/ ScanSent
    \/ ScanSize
    \/ ScanOther
    \/ ScanEOF
    \/ ScanReadErr
    \/ CallSpeedup

Spec == Init /\ [][Next]_vars

TypeOK ==
    /\ pc \in {"scan", "done", "error", "panic"}
    /\ Len(seen) <= MaxLines
    /\ p.TotalWritten \in 0..MaxInt64
    /\ p.TotalRead \in 0..MaxInt64
    /\ p.TotalSize \in 0..MaxInt64
    /\ (pc = "done") = (ret.stats # NilStats)
    /\ speedup.kind \in {"none", "value", "panic"}

----------------------------------------------------------------------------
(* Vocabulary of the properties *)

Recognized(l) == HasPrefix(l, SentPrefix) \/ HasPrefix(l, SizePrefix)

TransferMatch(l) == FindStringSubmatch(statsTransferRe, l)

SizeMatch(l) == FindStringSubmatch(statsSizeRe, l)

\* l begins with a recognized prefix and lacks the shape of that prefix.
Malformed(l) ==
    \/ HasPrefix(l, SentPrefix) /\ TransferMatch(l) = <<>>
    \/ ~HasPrefix(l, SentPrefix) /\ HasPrefix(l, SizePrefix) /\ SizeMatch(l) = <<>>

\* The base-10 value of a string of digits.
RECURSIVE Base10(_)
Base10(s) == IF s = <<>> THEN 0 ELSE 10 * Base10(SubSeq(s, 1, Len(s) - 1)) + DigitVal(s[Len(s)])

\* c has a digit and its digits, read in base 10, fit the int64.
GoodInt(c) == ReplaceAll(c) # <<>> /\ Base10(ReplaceAll(c)) <= MaxInt64

\* A line of the transfer-totals shape, or of the total-size shape, that the
\* scanner delivers.
IsTransfer(l) == ~TooLong(l) /\ TransferMatch(l) # <<>>

IsSize(l) == ~TooLong(l) /\ SizeMatch(l) # <<>>

\* Some conversion that Parse applies to a capture of l fails.
ConversionFails(l) ==
    /\ ~TooLong(l)
    /\ IF HasPrefix(l, SentPrefix)
       THEN LET m == TransferMatch(l)
            IN  /\ m # <<>>
                /\ \/ ParseInt(ReplaceAll(m[2])).err # Nil
                   \/ ParseInt(ReplaceAll(m[3])).err # Nil
                   \/ ParseFloat(ReplaceAll(m[4])).err # Nil
       ELSE LET m == SizeMatch(l)
            IN  /\ m # <<>>
                /\ ParseInt(ReplaceAll(m[2])).err # Nil

WellFormedTransfer(l) == IsTransfer(l) /\ ~ConversionFails(l)

WellFormedSize(l) == IsSize(l) /\ ~ConversionFails(l)

Last == seen[Len(seen)]

Returned == ret.stats[1]

\* The reader has not failed: the state stands for the streams that begin
\* with the lines seen, the one that ends right after them included.
CleanSoFar == ret.err # "ErrRead"

AllNumbersZero(s) ==
    /\ s.TotalWritten = 0
    /\ s.TotalRead = 0
    /\ s.BytesPerSec = [mant |-> 0, exp |-> 0]
    /\ s.TotalSize = 0

----------------------------------------------------------------------------
(* C1 *)

\* C1: a line with a recognized prefix ("sent " or "total size is ") that
\* lacks the full shape of that prefix ends the scan at that line, and Parse
\* returns an error and no record; the same for both prefixes.
C1_Claim ==
    \A i \in 1..Len(seen) :
        Malformed(seen[i]) =>
            /\ i = Len(seen)
            /\ pc = "error"
            /\ ret.stats = NilStats
            /\ ret.err # Nil

----------------------------------------------------------------------------
(* C2 *)

\* C2 as stated: once Parse has ended on a stream whose reader did not fail
\* and none of whose lines begins with a recognized prefix, it has returned
\* no error and the record with found = false and all numbers zero.
C2_Original ==
    (pc # "scan" /\ CleanSoFar /\ \A i \in 1..Len(seen) : ~Recognized(seen[i]))
        => /\ pc = "done"
           /\ ret.err = Nil
           /\ ~Returned.Found
           /\ AllNumbersZero(Returned)

\* C2, amended: the same, for streams in which moreover every line is
\* shorter than MaxScanTokenSize bytes.
C2_Amended ==
    (/\ pc # "scan"
     /\ CleanSoFar
     /\ \A i \in 1..Len(seen) : ~Recognized(seen[i]) /\ ~TooLong(seen[i]))
        => /\ pc = "done"
           /\ ret.err = Nil
           /\ ~Returned.Found
           /\ AllNumbersZero(Returned)

\* Parse has returned the all-zero record for three unrecognized lines, one
\* of them a single byte short of the scanner's limit.
C2_Witness ==
    /\ pc = "done"
    /\ Len(seen) = 3
    /\ \A i \in 1..3 : ~Recognized(seen[i])
    /\ \E i \in 1..3 : LineLen(seen[i]) = MaxScanTokenSize - 1
    /\ ~Returned.Found
    /\ AllNumbersZero(Returned)

----------------------------------------------------------------------------
(* C3 *)

\* C3: after a line of the transfer-totals shape or the total-size shape
\* whose captured integers all have a digit and fit the int64, total_written
\* and total_read, or total_size, hold the base-10 values of the captures'
\* digits with the commas removed.
C3_Claim ==
    Len(seen) > 0 =>
        /\ (/\ IsTransfer(Last)
            /\ GoodInt(TransferMatch(Last)[2])
            /\ GoodInt(TransferMatch(Last)[3]))
              => /\ p.TotalWritten = Base10(ReplaceAll(TransferMatch(Last)[2]))
                 /\ p.TotalRead = Base10(ReplaceAll(TransferMatch(Last)[3]))
        /\ (IsSize(Last) /\ GoodInt(SizeMatch(Last)[2]))
              => p.TotalSize = Base10(ReplaceAll(SizeMatch(Last)[2]))

----------------------------------------------------------------------------
(* C4 *)

\* C4: when Parse has returned a record, found is true exactly if some line
\* of the stream began with a recognized prefix and was processed, whatever
\* the numbers are.
C4_FoundIffRecognized ==
    pc = "done" => (Returned.Found <=> \E i \in 1..Len(seen) : Recognized(seen[i]))

\* Parse has returned a record with found = true and every number zero.
C4_Witness ==
    /\ pc = "done"
    /\ Returned.Found
    /\ AllNumbersZero(Returned)
    /\ \E i \in 1..Len(seen) : Recognized(seen[i])

----------------------------------------------------------------------------
(* C5 *)

Transfers == {i \in 1..Len(seen) : HasPrefix(seen[i], SentPrefix)}

Sizes == {i \in 1..Len(seen) : ~HasPrefix(seen[i], SentPrefix) /\ HasPrefix(seen[i], SizePrefix)}

\* The stream seen holds one well-formed transfer-totals line and one
\* well-formed total-size line, in either order, and no other recognized
\* line.
OneOfEach ==
    /\ Cardinality(Transfers) = 1
    /\ Cardinality(Sizes) = 1
    /\ \A i \in Transfers : WellFormedTransfer(seen[i])
    /\ \A i \in Sizes : WellFormedSize(seen[i])

\* The record the claim describes, from the two lines alone.
RecordOf(tl, sl) ==
    [Found |-> TRUE,
     TotalWritten |-> ParseInt(ReplaceAll(TransferMatch(tl)[2])).val,
     TotalRead |-> ParseInt(ReplaceAll(TransferMatch(tl)[3])).val,
     BytesPerSec |-> ParseFloat(ReplaceAll(TransferMatch(tl)[4])).val,
     TotalSize |-> ParseInt(ReplaceAll(SizeMatch(sl)[2])).val]

ReturnsRecordOfBoth ==
    /\ pc = "done"
    /\ \A i \in Transfers : \A j \in Sizes : Returned = RecordOf(seen[i], seen[j])

----------------------------------------------------------------------------
(* C6 *)

\* The sum total_written + total_read as an int64.
Denominator(s) ==
    IF s.TotalWritten + s.TotalRead > MaxInt64
    THEN s.TotalWritten + s.TotalRead - Pow2(IntWidth)
    ELSE s.TotalWritten + s.TotalRead

\* q is the quotient of n by d truncated toward zero.
IsTruncatedQuotient(q, n, d) ==
    /\ Abs(q) * Abs(d) <= Abs(n)
    /\ Abs(n) - Abs(q) * Abs(d) < Abs(d)
    /\ q > 0 => (n < 0) = (d < 0)
    /\ q < 0 => (n < 0) # (d < 0)

\* C6: for a returned record whose sum total_written + total_read is not
\* zero, Speedup() is the whole number that is the quotient of total_size by
\* that sum truncated toward zero, as a float64.
C6_SpeedupTruncates ==
    (speedup.kind # "none" /\ Denominator(Returned) # 0)
        => /\ speedup.kind = "value"
           /\ speedup.val.exp = 0
           /\ IsTruncatedQuotient(speedup.val.mant, Returned.TotalSize, Denominator(Returned))

\* Speedup() of total_size = 1188046, total_written = 1590, total_read = 18
\* is 738, and 1608 does not divide 1188046.
C6_Witness ==
    /\ speedup = [kind |-> "value", val |-> [mant |-> 738, exp |-> 0]]
    /\ Returned.TotalSize = 1188046
    /\ Returned.TotalWritten = 1590
    /\ Returned.TotalRead = 18
    /\ 738 * 1608 # 1188046

----------------------------------------------------------------------------
(* C7 *)

\* C7: Speedup() of every record that Parse returns yields a value.
C7_Claim == speedup.kind # "none" => speedup.kind = "value"

----------------------------------------------------------------------------
(* C8 *)

\* C8: a line of either shape with a capture whose conversion fails ends the
\* scan at that line, and Parse returns the conversion's error and no
\* record, whatever the fields already set; no error comes with a record.
C8_ConversionFailureIsFatal ==
    /\ \A i \in 1..Len(seen) :
           ConversionFails(seen[i]) =>
               /\ i = Len(seen)
               /\ pc = "error"
               /\ ret.stats = NilStats
               /\ ret.err \in {"ErrSyntax", "ErrRange"}
    /\ ret.err # Nil => ret.stats = NilStats

\* Parse has returned an error for a transfer line whose second capture is
\* a lone comma, after an earlier line set total_size and the line's first
\* capture set total_written.
C8_Witness ==
    /\ pc = "error"
    /\ ret = [stats |-> NilStats, err |-> "ErrSyntax"]
    /\ Len(seen) = 2
    /\ seen[1] = LSize
    /\ seen[2] = TransferText(N18, NComma, NSeven)
    /\ p.TotalSize = 1188046
    /\ p.TotalWritten = 18

----------------------------------------------------------------------------
(* C9 *)

\* C9: processing one line changes only the fields of the line's shape: a
\* line with neither prefix leaves the record as it was, a well-formed
\* transfer-totals line leaves total_size as it was, and a well-formed
\* total-size line leaves total_written, total_read and bytes_per_second as
\* they were.
C9_Frame ==
    [][ Len(seen') = Len(seen) + 1 =>
          /\ ~Recognized(seen'[Len(seen')]) => p' = p
          /\ WellFormedTransfer(seen'[Len(seen')]) =>
                /\ p'.Found
                /\ p'.TotalSize = p.TotalSize
          /\ WellFormedSize(seen'[Len(seen')]) =>
                /\ p'.Found
                /\ p'.TotalWritten = p.TotalWritten
                /\ p'.TotalRead = p.TotalRead
                /\ p'.BytesPerSec = p.BytesPerSec ]_vars

\* The size line came after the transfer line and an unrecognized line, and
\* the three values of the transfer line are still in the record.
C9_Witness ==
    /\ pc = "scan"
    /\ seen = <<LTransfer, [text |-> <<"s", "e", "n", "t">>, pad |-> 0], LSize>>
    /\ p = [Found |-> TRUE, TotalWritten |-> 1590, TotalRead |-> 18,
            BytesPerSec |-> [mant |-> 3216, exp |-> 0], TotalSize |-> 1188046]

----------------------------------------------------------------------------
(* C10 *)

\* C10: a line longer than MaxScanTokenSize bytes ends the scan at that
\* line, whatever it begins with and whatever the earlier lines have set,
\* and Parse returns bufio.ErrTooLong and no record.
C10_LongLineIsFatal ==
    \A i \in 1..Len(seen) :
        LineLen(seen[i]) > MaxScanTokenSize =>
            /\ i = Len(seen)
            /\ pc = "error"
            /\ ret = [stats |-> NilStats, err |-> "ErrTooLong"]

\* Parse has returned ErrTooLong for a line with neither prefix that is
\* longer than the limit, after a transfer line set three fields.
C10_Witness ==
    /\ pc = "error"
    /\ ret = [stats |-> NilStats, err |-> "ErrTooLong"]
    /\ Len(seen) = 2
    /\ seen[1] = LTransfer
    /\ ~Recognized(seen[2])
    /\ LineLen(seen[2]) > MaxScanTokenSize
    /\ p.TotalWritten = 1590

====
